---- MODULE Spec2Model ----
(***************************************************************************)
(* audioviz shared-memory frame transport.                                 *)
(*                                                                         *)
(* Consumer: libviz/src/shm_reader.c (struct ShmReader, shm_reader_init,   *)
(* shm_reader_read_frame).  Producer: pyviz/transport.py, whose source is  *)
(* not part of the tree; it is modelled from the architecture document and *)
(* the specification (write to slot seq % BUFFER_SLOTS, then post the      *)
(* semaphore unless its value is already BUFFER_SLOTS).                     *)
(*                                                                         *)
(* The two endpoints are separate processes, so the slot write and the     *)
(* reader's memcpy are not atomic with respect to each other: each is      *)
(* modelled as two part transfers ("hdr", "pay") in either order.          *)
(***************************************************************************)
EXTENDS Integers, FiniteSets, Sequences, TLC

\* ---- protocol constants (shm_protocol.h) ----
MAGIC_NUMBER == 1447647814
BUFFER_SLOTS == 8
\* the slot size of the architecture document
SLOT_SIZE_doc == 4096

SLOT_SIZE == 8192
MAX_FFT_BINS == 512

\* ---- model bounds ----
\* number of write_frame calls the producer makes
MaxWrites == 12
\* semaphore units left over by an earlier run when the reader attaches
MaxLeftover == 1
\* values of last_sequence for which the slot address is computed
MaxProbe == 40

Parts == {"hdr", "pay"}
Timeouts == {0, 100}

VARIABLES
    shm,              \* ring buffer: slot index -> [magic, seq, pay]
    sem_write,        \* value of the semaphore /audioviz_sem_write
    \* producer (transport.py)
    next_sequence,    \* next sequence number to assign
    frames_produced,  \* diagnostic counter
    producer_dropped, \* diagnostic counter: posts suppressed at the cap
    w_pc,             \* "idle" | "write" | "post"
    w_seq,            \* sequence of the frame being written
    w_todo,           \* parts of the frame not yet stored in the slot
    units_posted,     \* history: number of sem_post calls made
    \* consumer (struct ShmReader + the running shm_reader_read_frame call)
    last_sequence,
    frames_read,
    frames_dropped,
    frame,            \* the caller's output buffer (Frame*)
    r_pc,             \* "idle" | "wait" | "copy" | "validate"
    r_timeout,        \* timeout_ms of the running call
    r_slot,           \* slot_idx of the running call
    r_todo,           \* parts of the slot not yet copied by memcpy
    r_ret,            \* return value of the last finished call
    r_outcome,        \* history: the return path the last finished call took
    frame_before,     \* history: the caller's buffer when the running call began
    r_wait_written,   \* history: frames completely written when the wait succeeded
    units_taken,      \* history: number of successful semaphore waits
    reads_rejected,   \* history: calls that returned false after their wait
                      \* had succeeded
    overrun,          \* history: the producer once began a frame more than
                      \* BUFFER_SLOTS beyond last_sequence
    \* named objects of the operating system
    seg_exists,       \* the shared-memory object /audioviz_shm exists
    seg_size,         \* its size in bytes
    sem_exists,       \* the semaphore /audioviz_sem_write exists
    \* the shm_reader_init call and the ShmReader object it returns
    i_pc,             \* "none" | "shm_open" | "ftruncate" | "mmap" | "sem_open"
                      \* | "ready" | "failed" | "destroyed"
    i_create,         \* the create argument of the call
    i_created,        \* history: the named objects the call created
    i_failed_at,      \* history: the step at which the call failed
    res,              \* local resources held: "mem", "fd", "map", "sem"
    \* main() of the renderer executable
    m_pc,             \* position in main(); "any" when the caller is not main()
    g_running,
    renderer,         \* "none" | "ready" | "destroyed"
    frame_count,      \* renderer->frame_count
    reader_destroys,  \* history: number of shm_reader_destroy calls
    renderer_destroys, \* history: number of renderer_destroy calls
    exit_status,      \* return value of main(), NotExited while it runs
    \* several readers in one system, each initialised with its own name
    readers,          \* reader id -> [pc, shm_name, sem_name, woken_by]
    sem_units,        \* semaphore name -> the segments its pending posts
                      \* were made for, oldest first
    \* the deadline computation at the head of shm_reader_read_frame
    now,              \* the value clock_gettime(CLOCK_REALTIME) returned
    ts_timeout,       \* timeout_ms of the call that computed ts
    ts                \* struct timespec ts handed to sem_timedwait

vars == <<shm, sem_write, next_sequence, frames_produced, producer_dropped,
          w_pc, w_seq, w_todo, units_posted, last_sequence, frames_read,
          frames_dropped, frame, r_pc, r_timeout, r_slot, r_todo, r_ret,
          r_wait_written, units_taken, reads_rejected, overrun, r_outcome,
          frame_before,
          seg_exists, seg_size, sem_exists, i_pc, i_create, i_created,
          i_failed_at, res, m_pc, g_running, renderer, frame_count,
          reader_destroys, renderer_destroys, exit_status, readers,
          sem_units, now, ts_timeout, ts>>

producer_vars == <<next_sequence, frames_produced, producer_dropped, w_pc,
                   w_seq, w_todo, units_posted>>
reader_vars == <<last_sequence, frames_read, frames_dropped, frame, r_pc,
                 r_timeout, r_slot, r_todo, r_ret, r_wait_written, units_taken,
                 reads_rejected,
                 r_outcome, frame_before>>
os_vars == <<seg_exists, seg_size, sem_exists>>
init_vars == <<i_pc, i_create, i_created, i_failed_at, res>>
main_vars == <<g_running, renderer, frame_count, reader_destroys,
               renderer_destroys, exit_status>>
life_vars == <<os_vars, init_vars, m_pc, main_vars>>
multi_vars == <<readers, sem_units>>
clock_vars == <<now, ts_timeout, ts>>

\* a slot of a freshly created (ftruncate'd) segment; also the caller's buffer
\* before its first call (no code reads the buffer before memcpy fills it)
ZeroSlot == [magic |-> 0, seq |-> 0, bins |-> 0, pay |-> 0]

\* the bytes of one part of a slot-sized block b, stored over block a
StorePart(a, b, p) ==
    IF p = "hdr" THEN [a EXCEPT !.magic = b.magic, !.seq = b.seq, !.bins = b.bins]
                 ELSE [a EXCEPT !.pay = b.pay]

\* the producer has begun a frame more than BUFFER_SLOTS beyond the reader's
\* last_sequence, i.e. it is overwriting a slot the reader has not read
Overrun(nextseq, last) == nextseq - 1 - last > BUFFER_SLOTS

\* number of frames whose every byte is in the ring
FramesWritten == next_sequence - 1 - (IF w_pc = "write" THEN 1 ELSE 0)

\* ---------------------------------------------------------------------------
\* Producer: write_frame
\* ---------------------------------------------------------------------------

\* the serialized frame; the payload is tagged with the sequence it belongs to
EncodeFrame(seq) ==
    [magic |-> MAGIC_NUMBER, seq |-> seq, bins |-> MAX_FFT_BINS, pay |-> seq]

\* a writer that numbers the slots from sequence 1 = slot 0
WriterSlot_zeroBased(seq) == (seq - 1) % BUFFER_SLOTS

WriterSlot(seq) == seq % BUFFER_SLOTS

\* a post that ignores the cap
PostValue_uncapped(v) == v + 1

\* the semaphore value after the producer's post: capped at BUFFER_SLOTS
PostValue(v) == IF v < BUFFER_SLOTS THEN v + 1 ELSE v

WriteBegin ==
    /\ w_pc = "idle"
    /\ next_sequence <= MaxWrites
    /\ w_seq' = next_sequence
    /\ next_sequence' = next_sequence + 1
    /\ w_todo' = Parts
    /\ w_pc' = "write"
    /\ overrun' = (overrun \/ Overrun(next_sequence', last_sequence))
    /\ UNCHANGED <<shm, sem_write, frames_produced, producer_dropped,
                   units_posted, reader_vars>>
    /\ UNCHANGED life_vars
    /\ UNCHANGED <<multi_vars, clock_vars>>

\* a writer that goes on to post as soon as the first part is stored
WritePart_postEarly(p) ==
    /\ w_pc = "write"
    /\ p \in w_todo
    /\ shm' = [shm EXCEPT ![WriterSlot(w_seq)] = StorePart(@, EncodeFrame(w_seq), p)]
    /\ w_todo' = w_todo \ {p}
    /\ w_pc' = "post"
    /\ UNCHANGED <<sem_write, next_sequence, frames_produced, producer_dropped,
                   w_seq, units_posted, reader_vars, overrun>>
    /\ UNCHANGED life_vars
    /\ UNCHANGED <<multi_vars, clock_vars>>

WritePart(p) ==
    /\ w_pc = "write"
    /\ p \in w_todo
    /\ shm' = [shm EXCEPT ![WriterSlot(w_seq)] = StorePart(@, EncodeFrame(w_seq), p)]
    /\ w_todo' = w_todo \ {p}
    /\ w_pc' = IF w_todo' = {} THEN "post" ELSE "write"
    /\ UNCHANGED <<sem_write, next_sequence, frames_produced, producer_dropped,
                   w_seq, units_posted, reader_vars, overrun>>
    /\ UNCHANGED life_vars
    /\ UNCHANGED <<multi_vars, clock_vars>>

\* a writer that waits for room instead of suppressing the post
WritePost_blocking ==
    /\ w_pc = "post"
    /\ sem_write < BUFFER_SLOTS
    /\ sem_write' = sem_write + 1
    /\ units_posted' = units_posted + 1
    /\ frames_produced' = frames_produced + 1
    /\ w_pc' = "idle"
    /\ UNCHANGED <<shm, next_sequence, w_seq, w_todo, producer_dropped,
                   reader_vars, overrun>>
    /\ UNCHANGED life_vars
    /\ UNCHANGED <<multi_vars, clock_vars>>

\* a writer that counts a drop one unit before the cap is reached
WritePost_dropsEarly ==
    /\ w_pc = "post"
    /\ sem_write' = PostValue(sem_write)
    /\ units_posted' = units_posted + (sem_write' - sem_write)
    /\ producer_dropped' = producer_dropped
                             + (IF sem_write >= BUFFER_SLOTS - 1 THEN 1 ELSE 0)
    /\ frames_produced' = frames_produced + 1
    /\ w_pc' = "idle"
    /\ UNCHANGED <<shm, next_sequence, w_seq, w_todo, reader_vars, overrun>>
    /\ UNCHANGED life_vars
    /\ UNCHANGED <<multi_vars, clock_vars>>

WritePost ==
    /\ w_pc = "post"
    /\ sem_write' = PostValue(sem_write)
    /\ units_posted' = units_posted + (sem_write' - sem_write)
    /\ producer_dropped' = producer_dropped + (IF sem_write' = sem_write THEN 1 ELSE 0)
    /\ frames_produced' = frames_produced + 1
    /\ w_pc' = "idle"
    /\ UNCHANGED <<shm, next_sequence, w_seq, w_todo, reader_vars, overrun>>
    /\ UNCHANGED life_vars
    /\ UNCHANGED <<multi_vars, clock_vars>>

ProducerStep == WriteBegin \/ (\E p \in Parts : WritePart(p)) \/ WritePost

\* ---------------------------------------------------------------------------
\* Consumer: shm_reader_read_frame
\* ---------------------------------------------------------------------------

\* a reader that addresses the slot of last_sequence itself
SlotIdx_noAdvance(last) == last % BUFFER_SLOTS

\* slot_idx = (last_sequence + 1) % BUFFER_SLOTS
SlotIdx(last) == (last + 1) % BUFFER_SLOTS

\* an offset computed as if slot indices started at 1
SlotOffset_oneBased(idx) == (idx + 1) * SLOT_SIZE

\* slot_offset = slot_idx * SLOT_SIZE
SlotOffset(idx) == idx * SLOT_SIZE

\* reader->shm_size: the number of bytes mapped
ShmSize == BUFFER_SLOTS * SLOT_SIZE

\* the slot whose bytes start at a byte offset of the mapping
SlotAtOffset(off) == off \div SLOT_SIZE

\* a check that lets every magic pass
MagicValid_any(f) == TRUE

\* frame->header.magic != MAGIC_NUMBER
MagicValid(f) == f.magic = MAGIC_NUMBER

\* a drop check that compares against last_sequence instead of expected_seq
DroppedBy_offByOne(nread, last, seq) ==
    IF nread > 0 /\ seq > last THEN seq - last ELSE 0

\* the "Check for dropped frames" block: what is added to frames_dropped
DroppedBy(nread, last, seq) ==
    IF nread > 0 /\ seq > last + 1 THEN seq - (last + 1) ELSE 0

\* the semaphore value after a successful sem_wait / sem_timedwait
WaitValue(v) == v - 1

\* whether sem_wait / sem_timedwait can take a unit
WaitReady(v) == v > 0

\* whether the program holding the reader calls shm_reader_read_frame with
\* this timeout: main() calls it with 100 at one place of its loop
CallerReads(t) ==
    /\ i_pc = "ready"
    /\ m_pc = "any" \/ (m_pc = "read" /\ t = 100)

ReadCall(t) ==
    /\ r_pc = "idle"
    /\ CallerReads(t)
    /\ m_pc' = IF m_pc = "read" THEN "reading" ELSE m_pc
    /\ r_timeout' = t
    /\ r_pc' = "wait"
    /\ frame_before' = frame
    /\ UNCHANGED <<shm, sem_write, producer_vars, last_sequence, frames_read,
                   frames_dropped, frame, r_slot, r_todo, r_ret,
                   r_wait_written, units_taken, reads_rejected, overrun, r_outcome>>
    /\ UNCHANGED <<os_vars, init_vars, main_vars>>
    /\ UNCHANGED <<multi_vars, clock_vars>>

\* sem_timedwait / sem_wait returned 0
ReadWaitOk ==
    /\ r_pc = "wait"
    /\ WaitReady(sem_write)
    /\ sem_write' = WaitValue(sem_write)
    /\ units_taken' = units_taken + 1
    /\ UNCHANGED reads_rejected
    /\ r_wait_written' = FramesWritten
    /\ r_slot' = SlotIdx(last_sequence)
    /\ r_todo' = Parts
    /\ r_pc' = "copy"
    /\ UNCHANGED <<shm, producer_vars, last_sequence, frames_read,
                   frames_dropped, frame, r_timeout, r_ret, overrun,
                   r_outcome, frame_before>>
    /\ UNCHANGED life_vars
    /\ UNCHANGED <<multi_vars, clock_vars>>

\* a timeout path that clears the caller's buffer before returning
ReadTimedOut_clearsFrame ==
    /\ r_pc = "wait"
    /\ r_timeout > 0
    /\ ~WaitReady(sem_write)
    /\ frame' = ZeroSlot
    /\ r_ret' = FALSE
    /\ r_outcome' = "timeout"
    /\ r_pc' = "idle"
    /\ UNCHANGED <<shm, sem_write, producer_vars, last_sequence, frames_read,
                   frames_dropped, r_timeout, r_slot, r_todo,
                   r_wait_written, units_taken, reads_rejected, overrun, frame_before>>
    /\ UNCHANGED life_vars
    /\ UNCHANGED <<multi_vars, clock_vars>>

\* a timed wait taken on the branch for timeout_ms = 0 and the untimed wait
\* on the branch for timeout_ms > 0
ReadTimedOut_branchesSwapped ==
    /\ r_pc = "wait"
    /\ r_timeout <= 0
    /\ ~WaitReady(sem_write)
    /\ r_ret' = FALSE
    /\ r_outcome' = "timeout"
    /\ r_pc' = "idle"
    /\ UNCHANGED <<shm, sem_write, producer_vars, last_sequence, frames_read,
                   frames_dropped, frame, r_timeout, r_slot, r_todo,
                   r_wait_written, units_taken, reads_rejected, overrun, frame_before>>
    /\ UNCHANGED life_vars
    /\ UNCHANGED <<multi_vars, clock_vars>>

\* sem_timedwait returned -1 with ETIMEDOUT
ReadTimedOut ==
    /\ r_pc = "wait"
    /\ r_timeout > 0
    /\ ~WaitReady(sem_write)
    /\ r_ret' = FALSE
    /\ r_outcome' = "timeout"
    /\ r_pc' = "idle"
    /\ UNCHANGED <<shm, sem_write, producer_vars, last_sequence, frames_read,
                   frames_dropped, frame, r_timeout, r_slot, r_todo,
                   r_wait_written, units_taken, reads_rejected, overrun, frame_before>>
    /\ UNCHANGED life_vars
    /\ UNCHANGED <<multi_vars, clock_vars>>

\* sem_timedwait / sem_wait returned -1 with another errno (EINTR)
ReadWaitError ==
    /\ r_pc = "wait"
    /\ r_ret' = FALSE
    /\ r_outcome' = "waiterr"
    /\ r_pc' = "idle"
    /\ UNCHANGED <<shm, sem_write, producer_vars, last_sequence, frames_read,
                   frames_dropped, frame, r_timeout, r_slot, r_todo,
                   r_wait_written, units_taken, reads_rejected, overrun, frame_before>>
    /\ UNCHANGED life_vars
    /\ UNCHANGED <<multi_vars, clock_vars>>

\* memcpy(frame, shm_ptr + slot_offset, SLOT_SIZE), one part at a time
ReadCopy(p) ==
    /\ r_pc = "copy"
    /\ p \in r_todo
    /\ frame' = StorePart(frame, shm[SlotAtOffset(SlotOffset(r_slot))], p)
    /\ r_todo' = r_todo \ {p}
    /\ r_pc' = IF r_todo' = {} THEN "validate" ELSE "copy"
    /\ UNCHANGED <<shm, sem_write, producer_vars, last_sequence, frames_read,
                   frames_dropped, r_timeout, r_slot, r_ret, r_wait_written,
                   units_taken, reads_rejected, overrun, r_outcome, frame_before>>
    /\ UNCHANGED life_vars
    /\ UNCHANGED <<multi_vars, clock_vars>>

\* a reader that gives the unit back when the magic check fails
ReadValidate_returnsUnit ==
    /\ r_pc = "validate"
    /\ IF MagicValid(frame)
       THEN /\ frames_dropped' = frames_dropped
                                   + DroppedBy(frames_read, last_sequence, frame.seq)
            /\ last_sequence' = frame.seq
            /\ frames_read' = frames_read + 1
            /\ r_ret' = TRUE
            /\ r_outcome' = "ok"
            /\ UNCHANGED reads_rejected
            /\ UNCHANGED sem_write
       ELSE /\ r_ret' = FALSE
            /\ r_outcome' = "badmagic"
            /\ reads_rejected' = reads_rejected + 1
            /\ sem_write' = PostValue(sem_write)
            /\ UNCHANGED <<last_sequence, frames_read, frames_dropped>>
    /\ r_pc' = "idle"
    /\ overrun' = (overrun \/ Overrun(next_sequence, last_sequence'))
    /\ UNCHANGED <<shm, producer_vars, frame, r_timeout, r_slot,
                   r_todo, r_wait_written, units_taken, frame_before>>
    /\ UNCHANGED life_vars
    /\ UNCHANGED <<multi_vars, clock_vars>>

\* a reader that refuses every frame once a call has failed on the magic
ReadValidate_latchesFailure ==
    /\ r_pc = "validate"
    /\ IF MagicValid(frame) /\ r_outcome # "badmagic"
       THEN /\ frames_dropped' = frames_dropped
                                   + DroppedBy(frames_read, last_sequence, frame.seq)
            /\ last_sequence' = frame.seq
            /\ frames_read' = frames_read + 1
            /\ r_ret' = TRUE
            /\ r_outcome' = "ok"
            /\ UNCHANGED reads_rejected
       ELSE /\ r_ret' = FALSE
            /\ r_outcome' = "badmagic"
            /\ reads_rejected' = reads_rejected + 1
            /\ UNCHANGED <<last_sequence, frames_read, frames_dropped>>
    /\ r_pc' = "idle"
    /\ overrun' = (overrun \/ Overrun(next_sequence, last_sequence'))
    /\ UNCHANGED <<shm, sem_write, producer_vars, frame, r_timeout, r_slot,
                   r_todo, r_wait_written, units_taken, frame_before>>
    /\ UNCHANGED life_vars
    /\ UNCHANGED <<multi_vars, clock_vars>>

\* magic check, drop detection, state update, return; a frame with a valid
\* magic is accepted whatever its sequence
ReadValidate ==
    /\ r_pc = "validate"
    /\ IF MagicValid(frame)
       THEN /\ frames_dropped' = frames_dropped
                                   + DroppedBy(frames_read, last_sequence, frame.seq)
            /\ last_sequence' = frame.seq
            /\ frames_read' = frames_read + 1
            /\ r_ret' = TRUE
            /\ r_outcome' = "ok"
            /\ UNCHANGED reads_rejected
       ELSE /\ r_ret' = FALSE
            /\ r_outcome' = "badmagic"
            /\ reads_rejected' = reads_rejected + 1
            /\ UNCHANGED <<last_sequence, frames_read, frames_dropped>>
    /\ r_pc' = "idle"
    /\ overrun' = (overrun \/ Overrun(next_sequence, last_sequence'))
    /\ UNCHANGED <<shm, sem_write, producer_vars, frame, r_timeout, r_slot,
                   r_todo, r_wait_written, units_taken, frame_before>>
    /\ UNCHANGED life_vars
    /\ UNCHANGED <<multi_vars, clock_vars>>

\* ---------------------------------------------------------------------------

\* ---- named objects (shm_protocol.h) ----
SHM_NAME == "/audioviz_shm"
SEM_WRITE_NAME == "/audioviz_sem_write"

\* a second segment name, for a second ring buffer in the same system
OtherShmName == "/audioviz_shm_2"

ShmNames == {SHM_NAME, OtherShmName}
ReaderIds == {1, 2}

\* number of posts pending on one semaphore in the specification with
\* several readers
MaxPosts == 3

\* the semaphore shm_reader_init opens for a reader of the segment shm_name:
\* sem_open(SEM_WRITE_NAME, ...), whatever shm_name is
SemNameFor(shm_name) == SEM_WRITE_NAME

SemNames == {SemNameFor(n) : n \in ShmNames}

\* a reader id for which shm_reader_init has not been called
NoReader == [pc |-> "none", shm_name |-> "", sem_name |-> "", woken_by |-> ""]

\* no further reader in the system, no post pending for one
NoOtherReaders ==
    /\ readers = [r \in ReaderIds |-> NoReader]
    /\ sem_units = [n \in SemNames |-> <<>>]

\* no deadline has been computed
NoDeadline ==
    /\ now = [tv_sec |-> 0, tv_nsec |-> 0]
    /\ ts_timeout = 0
    /\ ts = [tv_sec |-> 0, tv_nsec |-> 0]

\* the local resources of an initialised reader: the ShmReader memory, the
\* descriptor, the mapping and the semaphore handle
AllResources == {"mem", "fd", "map", "sem"}

NotExited == -1

\* a reader whose shm_reader_init has succeeded, held by a program that calls
\* shm_reader_read_frame as it likes
ReaderInUse ==
    /\ seg_exists = TRUE
    /\ seg_size = ShmSize
    /\ sem_exists = TRUE
    /\ i_pc = "ready"
    /\ i_create = FALSE
    /\ i_created = {}
    /\ i_failed_at = "none"
    /\ res = AllResources
    /\ m_pc = "any"
    /\ g_running = TRUE
    /\ renderer = "none"
    /\ frame_count = 0
    /\ reader_destroys = 0
    /\ renderer_destroys = 0
    /\ exit_status = NotExited
    /\ NoOtherReaders
    /\ NoDeadline

Init ==
    /\ shm = [i \in 0..(BUFFER_SLOTS - 1) |-> ZeroSlot]
    /\ sem_write = 0
    /\ next_sequence = 1
    /\ frames_produced = 0
    /\ producer_dropped = 0
    /\ w_pc = "idle"
    /\ w_seq = 0
    /\ w_todo = {}
    /\ units_posted = 0
    /\ last_sequence = 0
    /\ frames_read = 0
    /\ frames_dropped = 0
    /\ frame = ZeroSlot
    /\ r_pc = "idle"
    /\ r_timeout = 0
    /\ r_slot = 0
    /\ r_todo = {}
    /\ r_ret = FALSE
    /\ r_wait_written = 0
    /\ units_taken = 0
    /\ reads_rejected = 0
    /\ overrun = FALSE
    /\ r_outcome = "none"
    /\ frame_before = ZeroSlot
    /\ ReaderInUse

\* a slot whose magic field is not the protocol constant
BadMagicSlot == [magic |-> 1, seq |-> 0, bins |-> 0, pay |-> 0]

\* a slot with the protocol magic whose bin_count exceeds the arrays' capacity
TooManyBinsSlot ==
    [magic |-> MAGIC_NUMBER, seq |-> 0, bins |-> MAX_FFT_BINS + 1, pay |-> 0]

\* what the slots of an existing segment may hold when a reader attaches
LeftoverSlots == {ZeroSlot, BadMagicSlot, TooManyBinsSlot}

\* shm_reader_init(name, false): the reader attaches to a segment and a
\* semaphore that already exist; it neither clears the segment nor resets the
\* semaphore, so the slots hold what an earlier run left and the semaphore
\* may still carry units
AttachInit ==
    /\ \E c \in LeftoverSlots : shm = [i \in 0..(BUFFER_SLOTS - 1) |-> c]
    /\ sem_write \in 0..MaxLeftover
    /\ units_posted = sem_write
    /\ next_sequence = 1
    /\ frames_produced = 0
    /\ producer_dropped = 0
    /\ w_pc = "idle"
    /\ w_seq = 0
    /\ w_todo = {}
    /\ last_sequence = 0
    /\ frames_read = 0
    /\ frames_dropped = 0
    /\ frame = ZeroSlot
    /\ r_pc = "idle"
    /\ r_timeout = 0
    /\ r_slot = 0
    /\ r_todo = {}
    /\ r_ret = FALSE
    /\ r_wait_written = 0
    /\ units_taken = 0
    /\ reads_rejected = 0
    /\ overrun = FALSE
    /\ r_outcome = "none"
    /\ frame_before = ZeroSlot
    /\ ReaderInUse

Next ==
    \/ WriteBegin
    \/ \E p \in Parts : WritePart(p)
    \/ WritePost
    \/ \E t \in Timeouts : ReadCall(t)
    \/ ReadWaitOk
    \/ ReadTimedOut
    \/ ReadWaitError
    \/ \E p \in Parts : ReadCopy(p)
    \/ ReadValidate

Spec == Init /\ [][Next]_vars

\* the producer's loop runs on its own process: its steps are taken whenever
\* they are possible, whatever the consumer does
FairSpec == Spec /\ WF_vars(ProducerStep)

\* the reader attached to an existing segment and semaphore
AttachSpec == AttachInit /\ [][Next]_vars

\* the consumer's process keeps running: a wait with a deadline ends when a
\* unit is there or the deadline passes, and the copy and the checks that
\* follow a successful wait are straight-line code
ReaderFairSpec ==
    Spec /\ WF_vars(ReadWaitOk \/ ReadTimedOut)
         /\ WF_vars(\E p \in Parts : ReadCopy(p))
         /\ WF_vars(ReadValidate)

TypeOK ==
    /\ sem_write \in 0..BUFFER_SLOTS
    /\ next_sequence \in 1..(MaxWrites + 1)
    /\ w_pc \in {"idle", "write", "post"}
    /\ r_pc \in {"idle", "wait", "copy", "validate"}

\* ---------------------------------------------------------------------------
\* Consumer: shm_reader_init and shm_reader_destroy
\* ---------------------------------------------------------------------------

\* number of write_frame calls the producer makes in the specifications that
\* follow a reader from its initialisation
LifeWrites == 4

\* the value standing for a ShmReader field before calloc has run
NoObject == -1

reader_call_vars == <<frame, r_pc, r_timeout, r_slot, r_todo, r_ret,
                      r_wait_written, units_taken, reads_rejected, r_outcome, frame_before>>

\* the bytes of a segment that ftruncate has just grown
ZeroRing == [i \in 0..(BUFFER_SLOTS - 1) |-> ZeroSlot]

\* whether the program calls shm_reader_init with this create argument:
\* main() calls it once, with false
CallerInits(create) == m_pc = "any" \/ (m_pc = "init_reader" /\ ~create)

\* an allocation that does not clear the memory (malloc for calloc)
ShmReaderInit_malloc(create) ==
    /\ i_pc = "none"
    /\ CallerInits(create)
    /\ i_create' = create
    /\ \E ok \in BOOLEAN :
         IF ok
         THEN /\ res' = res \cup {"mem"}
              /\ last_sequence' = 0
              /\ i_pc' = "shm_open"
              /\ UNCHANGED <<i_failed_at, frames_read, frames_dropped>>
         ELSE /\ i_pc' = "failed"
              /\ i_failed_at' = "calloc"
              /\ UNCHANGED <<res, last_sequence, frames_read, frames_dropped>>
    /\ UNCHANGED <<shm, sem_write, producer_vars, reader_call_vars, overrun,
                   os_vars, i_created, m_pc, main_vars>>
    /\ UNCHANGED <<multi_vars, clock_vars>>

\* the call and its first step: reader = calloc(1, sizeof(ShmReader)), which
\* zeroes every field; shm_size and last_sequence are then assigned
ShmReaderInit(create) ==
    /\ i_pc = "none"
    /\ CallerInits(create)
    /\ i_create' = create
    /\ \E ok \in BOOLEAN :
         IF ok
         THEN /\ res' = res \cup {"mem"}
              /\ last_sequence' = 0
              /\ frames_read' = 0
              /\ frames_dropped' = 0
              /\ i_pc' = "shm_open"
              /\ UNCHANGED i_failed_at
         ELSE /\ i_pc' = "failed"
              /\ i_failed_at' = "calloc"
              /\ UNCHANGED <<res, last_sequence, frames_read, frames_dropped>>
    /\ UNCHANGED <<shm, sem_write, producer_vars, reader_call_vars, overrun,
                   os_vars, i_created, m_pc, main_vars>>
    /\ UNCHANGED <<multi_vars, clock_vars>>

\* shm_open(shm_name, create ? O_RDWR | O_CREAT : O_RDWR, mode)
InitShmOpen ==
    /\ i_pc = "shm_open"
    /\ \E ok \in BOOLEAN :
         /\ ok => (i_create \/ seg_exists)
         /\ IF ok
            THEN /\ res' = res \cup {"fd"}
                 /\ seg_exists' = TRUE
                 /\ seg_size' = IF seg_exists THEN seg_size ELSE 0
                 /\ i_created' = IF seg_exists THEN i_created
                                               ELSE i_created \cup {"seg"}
                 /\ i_pc' = IF i_create THEN "ftruncate" ELSE "mmap"
                 /\ UNCHANGED i_failed_at
            ELSE /\ res' = res \ {"mem"}
                 /\ i_pc' = "failed"
                 /\ i_failed_at' = "shm_open"
                 /\ UNCHANGED <<seg_exists, seg_size, i_created>>
    /\ UNCHANGED <<shm, sem_write, sem_exists, producer_vars, reader_vars,
                   overrun, i_create, m_pc, main_vars>>
    /\ UNCHANGED <<multi_vars, clock_vars>>

\* if (create) ftruncate(shm_fd, shm_size)
InitTruncate ==
    /\ i_pc = "ftruncate"
    /\ \E ok \in BOOLEAN :
         IF ok
         THEN /\ seg_size' = ShmSize
              /\ shm' = IF seg_size < ShmSize THEN ZeroRing ELSE shm
              /\ i_pc' = "mmap"
              /\ UNCHANGED <<res, i_failed_at>>
         ELSE /\ res' = res \ {"fd", "mem"}
              /\ i_pc' = "failed"
              /\ i_failed_at' = "ftruncate"
              /\ UNCHANGED <<seg_size, shm>>
    /\ UNCHANGED <<sem_write, seg_exists, sem_exists, producer_vars,
                   reader_vars, overrun, i_create, i_created, m_pc, main_vars>>
    /\ UNCHANGED <<multi_vars, clock_vars>>

\* mmap(NULL, shm_size, PROT_READ | PROT_WRITE, MAP_SHARED, shm_fd, 0)
InitMmap ==
    /\ i_pc = "mmap"
    /\ \E ok \in BOOLEAN :
         IF ok
         THEN /\ res' = res \cup {"map"}
              /\ i_pc' = "sem_open"
              /\ UNCHANGED i_failed_at
         ELSE /\ res' = res \ {"fd", "mem"}
              /\ i_pc' = "failed"
              /\ i_failed_at' = "mmap"
    /\ UNCHANGED <<shm, sem_write, os_vars, producer_vars, reader_vars,
                   overrun, i_create, i_created, m_pc, main_vars>>
    /\ UNCHANGED <<multi_vars, clock_vars>>

\* a failure path of sem_open that forgets the munmap
InitSemOpen_leaksMapping ==
    /\ i_pc = "sem_open"
    /\ \E ok \in BOOLEAN :
         /\ ok => (i_create \/ sem_exists)
         /\ IF ok
            THEN /\ res' = res \cup {"sem"}
                 /\ sem_exists' = TRUE
                 /\ sem_write' = IF sem_exists THEN sem_write ELSE 0
                 /\ i_created' = IF sem_exists THEN i_created
                                               ELSE i_created \cup {"sem"}
                 /\ i_pc' = "ready"
                 /\ UNCHANGED i_failed_at
            ELSE /\ res' = res \ {"fd", "mem"}
                 /\ i_pc' = "failed"
                 /\ i_failed_at' = "sem_open"
                 /\ UNCHANGED <<sem_exists, sem_write, i_created>>
    /\ UNCHANGED <<shm, seg_exists, seg_size, producer_vars, reader_vars,
                   overrun, i_create, m_pc, main_vars>>
    /\ UNCHANGED <<multi_vars, clock_vars>>

\* a sem_open that passes O_CREAT whatever the create argument
InitSemOpen_alwaysCreates ==
    /\ i_pc = "sem_open"
    /\ \E ok \in BOOLEAN :
         IF ok
         THEN /\ res' = res \cup {"sem"}
              /\ sem_exists' = TRUE
              /\ sem_write' = IF sem_exists THEN sem_write ELSE 0
              /\ i_created' = IF sem_exists THEN i_created
                                            ELSE i_created \cup {"sem"}
              /\ i_pc' = "ready"
              /\ UNCHANGED i_failed_at
         ELSE /\ res' = res \ {"map", "fd", "mem"}
              /\ i_pc' = "failed"
              /\ i_failed_at' = "sem_open"
              /\ UNCHANGED <<sem_exists, sem_write, i_created>>
    /\ UNCHANGED <<shm, seg_exists, seg_size, producer_vars, reader_vars,
                   overrun, i_create, m_pc, main_vars>>
    /\ UNCHANGED <<multi_vars, clock_vars>>

\* sem_open(SEM_WRITE_NAME, create ? O_CREAT : 0, mode, 0), then return reader
InitSemOpen ==
    /\ i_pc = "sem_open"
    /\ \E ok \in BOOLEAN :
         /\ ok => (i_create \/ sem_exists)
         /\ IF ok
            THEN /\ res' = res \cup {"sem"}
                 /\ sem_exists' = TRUE
                 /\ sem_write' = IF sem_exists THEN sem_write ELSE 0
                 /\ i_created' = IF sem_exists THEN i_created
                                               ELSE i_created \cup {"sem"}
                 /\ i_pc' = "ready"
                 /\ UNCHANGED i_failed_at
            ELSE /\ res' = res \ {"map", "fd", "mem"}
                 /\ i_pc' = "failed"
                 /\ i_failed_at' = "sem_open"
                 /\ UNCHANGED <<sem_exists, sem_write, i_created>>
    /\ UNCHANGED <<shm, seg_exists, seg_size, producer_vars, reader_vars,
                   overrun, i_create, m_pc, main_vars>>
    /\ UNCHANGED <<multi_vars, clock_vars>>

\* a destroy that also unlinks the named objects
DestroyEffect_unlinks ==
    /\ res' = res \ {"sem", "map", "fd", "mem"}
    /\ i_pc' = "destroyed"
    /\ reader_destroys' = reader_destroys + 1
    /\ seg_exists' = FALSE
    /\ sem_exists' = FALSE
    /\ UNCHANGED <<seg_size, shm, sem_write>>

\* the body of shm_reader_destroy for a non-NULL reader: sem_close, munmap,
\* close, free; there is no shm_unlink and no sem_unlink
DestroyEffect ==
    /\ res' = res \ {"sem", "map", "fd", "mem"}
    /\ i_pc' = "destroyed"
    /\ reader_destroys' = reader_destroys + 1
    /\ UNCHANGED <<os_vars, shm, sem_write>>

\* shm_reader_destroy called by a program other than main()
ShmReaderDestroy ==
    /\ i_pc = "ready"
    /\ r_pc = "idle"
    /\ m_pc = "any"
    /\ DestroyEffect
    /\ UNCHANGED <<producer_vars, reader_vars, overrun, i_create, i_created,
                   i_failed_at, m_pc, g_running, renderer, frame_count,
                   renderer_destroys, exit_status>>
    /\ UNCHANGED <<multi_vars, clock_vars>>

\* the producer begins a frame in a segment and with a semaphore that exist
AttachedWriteBegin ==
    /\ seg_exists
    /\ seg_size = ShmSize
    /\ sem_exists
    /\ next_sequence <= LifeWrites
    /\ WriteBegin

\* ---------------------------------------------------------------------------
\* main() of the renderer executable (libviz/src/main.c)
\* ---------------------------------------------------------------------------

transport_vars == <<shm, sem_write, producer_vars, reader_vars, overrun>>

\* signal(SIGINT, signal_handler); signal(SIGTERM, signal_handler)
MainStart ==
    /\ m_pc = "start"
    /\ m_pc' = "init_reader"
    /\ UNCHANGED <<transport_vars, os_vars, init_vars, main_vars>>
    /\ UNCHANGED <<multi_vars, clock_vars>>

\* signal_handler: g_running = false; it runs at any point once installed
SignalHandler ==
    /\ m_pc \notin {"any", "start", "exit"}
    /\ g_running
    /\ g_running' = FALSE
    /\ UNCHANGED <<transport_vars, os_vars, init_vars, m_pc, renderer,
                   frame_count, reader_destroys, renderer_destroys,
                   exit_status>>
    /\ UNCHANGED <<multi_vars, clock_vars>>

\* if (!reader) return 1
MainReaderInitDone ==
    /\ m_pc = "init_reader"
    /\ i_pc \in {"ready", "failed"}
    /\ IF i_pc = "failed"
       THEN m_pc' = "exit" /\ exit_status' = 1
       ELSE m_pc' = "init_renderer" /\ UNCHANGED exit_status
    /\ UNCHANGED <<transport_vars, os_vars, init_vars, g_running, renderer,
                   frame_count, reader_destroys, renderer_destroys>>
    /\ UNCHANGED <<multi_vars, clock_vars>>

\* renderer = renderer_init(&config);
\* if (!renderer) { shm_reader_destroy(reader); return 1; }
MainRendererInit ==
    /\ m_pc = "init_renderer"
    /\ \E ok \in BOOLEAN :
         IF ok
         THEN /\ renderer' = "ready"
              /\ m_pc' = "loop"
              /\ UNCHANGED <<shm, sem_write, os_vars, res, i_pc,
                             reader_destroys, exit_status>>
         ELSE /\ DestroyEffect
              /\ m_pc' = "exit"
              /\ exit_status' = 1
              /\ UNCHANGED renderer
    /\ UNCHANGED <<producer_vars, reader_vars, overrun, i_create, i_created,
                   i_failed_at, g_running, frame_count, renderer_destroys>>
    /\ UNCHANGED <<multi_vars, clock_vars>>

\* a loop that never looks at g_running
MainLoopCheck_ignoresFlag ==
    /\ m_pc = "loop"
    /\ m_pc' = "events"
    /\ UNCHANGED <<transport_vars, os_vars, init_vars, main_vars>>
    /\ UNCHANGED <<multi_vars, clock_vars>>

\* while (g_running)
MainLoopCheck ==
    /\ m_pc = "loop"
    /\ m_pc' = IF g_running THEN "events" ELSE "cleanup"
    /\ UNCHANGED <<transport_vars, os_vars, init_vars, main_vars>>
    /\ UNCHANGED <<multi_vars, clock_vars>>

\* if (!renderer_process_events(renderer)) break; the function returns true
\* for every renderer that is not NULL
MainProcessEvents ==
    /\ m_pc = "events"
    /\ renderer = "ready"
    /\ m_pc' = "read"
    /\ UNCHANGED <<transport_vars, os_vars, init_vars, main_vars>>
    /\ UNCHANGED <<multi_vars, clock_vars>>

\* a loop that renders the buffer whatever the read returned
MainReadDone_rendersAlways ==
    /\ m_pc = "reading"
    /\ r_pc = "idle"
    /\ m_pc' = "render"
    /\ UNCHANGED <<transport_vars, os_vars, init_vars, main_vars>>
    /\ UNCHANGED <<multi_vars, clock_vars>>

\* if (shm_reader_read_frame(reader, &frame, 100)) { ... }
MainReadDone ==
    /\ m_pc = "reading"
    /\ r_pc = "idle"
    /\ m_pc' = IF r_ret THEN "render" ELSE "loop"
    /\ UNCHANGED <<transport_vars, os_vars, init_vars, main_vars>>
    /\ UNCHANGED <<multi_vars, clock_vars>>

\* renderer_render_frame(renderer, frame.magnitude, frame.header.bin_count):
\* it returns true for a renderer and a magnitude pointer that are not NULL,
\* after renderer->frame_count++
MainRender ==
    /\ m_pc = "render"
    /\ renderer = "ready"
    /\ frame_count' = frame_count + 1
    /\ m_pc' = "loop"
    /\ UNCHANGED <<transport_vars, os_vars, init_vars, g_running, renderer,
                   reader_destroys, renderer_destroys, exit_status>>
    /\ UNCHANGED <<multi_vars, clock_vars>>

\* renderer_destroy(renderer); shm_reader_destroy(reader); return 0
MainCleanup ==
    /\ m_pc = "cleanup"
    /\ renderer' = "destroyed"
    /\ renderer_destroys' = renderer_destroys + 1
    /\ DestroyEffect
    /\ exit_status' = 0
    /\ m_pc' = "exit"
    /\ UNCHANGED <<producer_vars, reader_vars, overrun, i_create, i_created,
                   i_failed_at, g_running, frame_count>>
    /\ UNCHANGED <<multi_vars, clock_vars>>

\* the steps main() takes in and after its loop
MainStep ==
    \/ MainLoopCheck
    \/ MainProcessEvents
    \/ ReadCall(100)
    \/ MainReadDone
    \/ MainRender
    \/ MainCleanup

\* ---------------------------------------------------------------------------

\* the slots of a segment in which an earlier run wrote frames 1 .. 15
PreviousRunRing == [i \in 0..(BUFFER_SLOTS - 1) |-> EncodeFrame(i + BUFFER_SLOTS)]

\* what an existing segment may hold when a process starts
LeftoverRings ==
    {[i \in 0..(BUFFER_SLOTS - 1) |-> c] : c \in LeftoverSlots}
        \cup {PreviousRunRing}

\* a consumer process before shm_reader_init: the named objects may or may
\* not exist, no ShmReader exists
ProcessStart ==
    /\ seg_exists \in BOOLEAN
    /\ seg_size = IF seg_exists THEN ShmSize ELSE 0
    /\ shm \in (IF seg_exists THEN LeftoverRings ELSE {ZeroRing})
    /\ sem_exists \in BOOLEAN
    /\ sem_write \in (IF sem_exists THEN 0..MaxLeftover ELSE {0})
    /\ units_posted = sem_write
    /\ next_sequence = 1
    /\ frames_produced = 0
    /\ producer_dropped = 0
    /\ w_pc = "idle"
    /\ w_seq = 0
    /\ w_todo = {}
    /\ last_sequence = NoObject
    /\ frames_read = NoObject
    /\ frames_dropped = NoObject
    /\ frame = ZeroSlot
    /\ r_pc = "idle"
    /\ r_timeout = 0
    /\ r_slot = 0
    /\ r_todo = {}
    /\ r_ret = FALSE
    /\ r_wait_written = 0
    /\ units_taken = 0
    /\ reads_rejected = 0
    /\ overrun = FALSE
    /\ r_outcome = "none"
    /\ frame_before = ZeroSlot
    /\ i_pc = "none"
    /\ i_create = FALSE
    /\ i_created = {}
    /\ i_failed_at = "none"
    /\ res = {}
    /\ g_running = TRUE
    /\ renderer = "none"
    /\ frame_count = 0
    /\ reader_destroys = 0
    /\ renderer_destroys = 0
    /\ exit_status = NotExited
    /\ NoOtherReaders
    /\ NoDeadline

\* a program that initialises a reader in either mode, reads and destroys it
LifeInit == ProcessStart /\ m_pc = "any"

LifeNext ==
    \/ \E c \in BOOLEAN : ShmReaderInit(c)
    \/ InitShmOpen
    \/ InitTruncate
    \/ InitMmap
    \/ InitSemOpen
    \/ ShmReaderDestroy
    \/ AttachedWriteBegin
    \/ \E p \in Parts : WritePart(p)
    \/ WritePost
    \/ \E t \in Timeouts : ReadCall(t)
    \/ ReadWaitOk
    \/ ReadTimedOut
    \/ ReadWaitError
    \/ \E p \in Parts : ReadCopy(p)
    \/ ReadValidate

LifeSpec == LifeInit /\ [][LifeNext]_vars

\* the renderer executable
MainInit == ProcessStart /\ m_pc = "start"

MainNext ==
    \/ MainStart
    \/ SignalHandler
    \/ \E c \in BOOLEAN : ShmReaderInit(c)
    \/ InitShmOpen
    \/ InitMmap
    \/ InitSemOpen
    \/ MainReaderInitDone
    \/ MainRendererInit
    \/ MainLoopCheck
    \/ MainProcessEvents
    \/ \E t \in Timeouts : ReadCall(t)
    \/ ReadWaitOk
    \/ ReadTimedOut
    \/ ReadWaitError
    \/ \E p \in Parts : ReadCopy(p)
    \/ ReadValidate
    \/ MainReadDone
    \/ MainRender
    \/ MainCleanup
    \/ AttachedWriteBegin
    \/ \E p \in Parts : WritePart(p)
    \/ WritePost

MainSpec == MainInit /\ [][MainNext]_vars

\* main() is a running process: its own steps are taken when they are
\* possible, the timed wait ends when a unit is there or the deadline passes,
\* and the copy and the checks after a successful wait are straight-line code
MainFairSpec ==
    MainSpec /\ WF_vars(MainStep)
             /\ WF_vars(ReadWaitOk \/ ReadTimedOut)
             /\ WF_vars(\E p \in Parts : ReadCopy(p))
             /\ WF_vars(ReadValidate)

\* ---------------------------------------------------------------------------
\* Frame layout (shm_protocol.h)
\* ---------------------------------------------------------------------------

HEADER_SIZE == 64

\* the members of FrameHeader in declaration order: size and natural alignment
HeaderFields ==
    << [name |-> "magic",          size |-> 4,  align |-> 4],
       [name |-> "frame_sequence", size |-> 8,  align |-> 8],
       [name |-> "timestamp_us",   size |-> 8,  align |-> 8],
       [name |-> "sample_rate",    size |-> 4,  align |-> 4],
       [name |-> "bin_count",      size |-> 4,  align |-> 4],
       [name |-> "reserved",       size |-> 36, align |-> 1] >>

\* the size of Frame.padding as declared
PaddingSize == SLOT_SIZE - HEADER_SIZE - (MAX_FFT_BINS * 4 * 2)

\* the members of Frame in declaration order
FrameFields ==
    << [name |-> "header",    size |-> HEADER_SIZE,      align |-> 8],
       [name |-> "magnitude", size |-> 4 * MAX_FFT_BINS, align |-> 4],
       [name |-> "phase",     size |-> 4 * MAX_FFT_BINS, align |-> 4],
       [name |-> "padding",   size |-> PaddingSize,      align |-> 1] >>

RoundUp(x, a) == ((x + a - 1) \div a) * a

RECURSIVE FieldOffset_aligned(_, _)
RECURSIVE FieldOffset(_, _)

\* the offsets of a struct that is not packed: every member starts at a
\* multiple of its alignment
FieldOffset_aligned(fields, i) ==
    IF i = 1 THEN 0
    ELSE RoundUp(FieldOffset_aligned(fields, i - 1) + fields[i - 1].size,
                 fields[i].align)

\* offset of member i of a struct declared __attribute__((packed)): the
\* members follow each other without gaps
FieldOffset(fields, i) ==
    IF i = 1 THEN 0
    ELSE FieldOffset(fields, i - 1) + fields[i - 1].size

\* sizeof a packed struct
StructSize(fields) ==
    FieldOffset(fields, Len(fields)) + fields[Len(fields)].size

\* ---------------------------------------------------------------------------
\* Properties
\* ---------------------------------------------------------------------------

\* the step in which a shm_reader_read_frame call that passed its wait returns
ReadReturns == r_pc = "validate" /\ r_pc' = "idle"
ReadSucceeds == ReadReturns /\ r_ret' = TRUE

MaxOf(a, b) == IF a >= b THEN a ELSE b

\* C1: the sequences returned by successive successful reads are strictly
\* increasing (last_sequence is the sequence of the previous successful read).
C1_StrictlyIncreasing ==
    [][ReadSucceeds => last_sequence' > last_sequence]_vars

\* C2: a copied frame with a valid magic and a sequence <= last_sequence is
\* rejected: the call returns false and the reader's state is unchanged.
C2_StaleRejected ==
    [][(ReadReturns /\ MagicValid(frame) /\ frame.seq <= last_sequence)
          => (r_ret' = FALSE
              /\ UNCHANGED <<last_sequence, frames_read, frames_dropped>>)]_vars

\* C3: every successful read, the first included, adds the gap
\* s - (last_sequence + 1) to frames_dropped when s > last_sequence + 1,
\* nothing otherwise, and sets last_sequence to s.
C3_GapCounted ==
    [][ReadSucceeds
          => (/\ frames_dropped' = frames_dropped
                    + (IF frame.seq > last_sequence + 1
                       THEN frame.seq - (last_sequence + 1) ELSE 0)
              /\ last_sequence' = frame.seq)]_vars

\* C4: the first successful read of a fresh reader, made after frames 1..k
\* were written (and nothing since), returns s >= max(1, k - BUFFER_SLOTS + 1) and leaves
\* frames_dropped = s - 1.
C4_FirstReadAfterBacklog ==
    [][(ReadSucceeds /\ frames_read = 0
        /\ w_pc = "idle" /\ r_wait_written = next_sequence - 1)
          => (/\ frame.seq >= MaxOf(1, r_wait_written - BUFFER_SLOTS + 1)
              /\ frames_dropped' = frame.seq - 1)]_vars

\* the single first read of a consumer, begun after the producer wrote
\* sequences 1..10 and stopped
C5_Scenario ==
    /\ ReadReturns
    /\ frames_read = 0 /\ last_sequence = 0 /\ units_taken = 1
    /\ r_wait_written = 10 /\ next_sequence = 11 /\ w_pc = "idle"

C6_InOrderWithoutOverrun ==
    [][(ReadSucceeds /\ ~overrun')
          => (/\ frame = EncodeFrame(frames_read')
              /\ last_sequence' = frames_read'
              /\ frames_dropped' = 0)]_vars

\* the ring has wrapped (frame 9 reuses slot 1) and every frame was delivered
C6_Witness ==
    /\ ~overrun
    /\ r_pc = "idle" /\ r_ret = TRUE
    /\ frames_read > BUFFER_SLOTS
    /\ frame = EncodeFrame(frames_read)
    /\ frames_dropped = 0

\* C7: a successfully returned frame is the content of one single producer
\* write: its payload belongs to the sequence in its header.
C7_NoTornFrame ==
    [][ReadSucceeds => frame = EncodeFrame(frame.seq)]_vars

\* C8: the semaphore value always lies between 0 and BUFFER_SLOTS.
C8_SignalBounded == sem_write >= 0 /\ sem_write <= BUFFER_SLOTS

\* a write found the semaphore at its cap and left it there
C8_Witness ==
    /\ sem_write = BUFFER_SLOTS
    /\ producer_dropped > 0
    /\ w_pc = "idle"

\* C9: a write_frame call that has begun always completes, with its frame in
\* slot (sequence mod BUFFER_SLOTS), whatever the consumer does.
C9_WriteCompletes ==
    (w_pc # "idle")
        ~> (w_pc = "idle" /\ shm[w_seq % BUFFER_SLOTS] = EncodeFrame(w_seq))

\* a write completed although the consumer never read and the semaphore was
\* at its cap
C9_Witness ==
    /\ w_pc = "idle"
    /\ units_taken = 0
    /\ sem_write = BUFFER_SLOTS
    /\ frames_produced > BUFFER_SLOTS
    /\ shm[w_seq % BUFFER_SLOTS] = EncodeFrame(w_seq)

\* every frame written so far is still in its slot or was replaced there by a
\* later frame; in neither case is the slot unwritten
SlotWritten(s) ==
    LET slot == shm[s % BUFFER_SLOTS]
    IN  MagicValid(slot) /\ slot.seq >= s /\ slot.pay >= s

\* C10: a post is made only when every byte of the frame is in its slot; the
\* units posted never exceed the frames completely written, the units taken
\* never exceed the units posted, and the slot of a written frame is never
\* found unwritten.
C10_PostAfterWrite ==
    /\ [](/\ units_taken <= units_posted
          /\ units_posted <= FramesWritten
          /\ \A s \in 1..FramesWritten : SlotWritten(s))
    /\ [][(w_pc = "post" /\ sem_write' # sem_write)
             => shm[w_seq % BUFFER_SLOTS] = EncodeFrame(w_seq)]_vars

\* the consumer's wait succeeded on the unit posted for the only frame written
C10_Witness ==
    /\ r_pc = "copy"
    /\ units_taken = 1 /\ units_posted = 1
    /\ FramesWritten = 1
    /\ shm[r_slot] = EncodeFrame(1)

\* C11: the n-th write_frame call carries sequence n (from 1, by steps of
\* one, never 0, never reused) and stores its frame in slot n mod BUFFER_SLOTS
\* and nowhere else.
C11_SequencePerCall ==
    /\ [](/\ next_sequence >= 1
          /\ (w_pc = "idle" => w_seq = frames_produced /\ next_sequence = w_seq + 1)
          /\ (w_pc # "idle" => w_seq = frames_produced + 1 /\ w_seq >= 1
                               /\ next_sequence = w_seq + 1))
    /\ [][/\ (w_seq' # w_seq => w_seq' = w_seq + 1)
          /\ \A i \in 0..(BUFFER_SLOTS - 1) :
                shm'[i] # shm[i]
                   => (/\ i = w_seq % BUFFER_SLOTS
                       /\ \E p \in Parts :
                             shm'[i] = StorePart(shm[i], EncodeFrame(w_seq), p))]_vars

\* the ninth call has put frame 9 where frame 1 was
C11_Witness ==
    /\ w_pc = "idle"
    /\ frames_produced = BUFFER_SLOTS + 1
    /\ shm[1] = EncodeFrame(BUFFER_SLOTS + 1)
    /\ shm[0] = EncodeFrame(BUFFER_SLOTS)

\* C12: after a successful wait the reader copies slot
\* (last_sequence + 1) mod BUFFER_SLOTS from byte offset slot * SLOT_SIZE, and
\* the SLOT_SIZE bytes copied lie inside the BUFFER_SLOTS * SLOT_SIZE region.
C12_CopyInsideRegion ==
    /\ r_pc = "copy"
       => (/\ r_slot = (last_sequence + 1) % BUFFER_SLOTS
           /\ SlotOffset(r_slot) = r_slot * SLOT_SIZE
           /\ SlotOffset(r_slot) >= 0
           /\ SlotOffset(r_slot) + SLOT_SIZE <= ShmSize)
    /\ \A last \in 0..MaxProbe :
          /\ SlotIdx(last) = (last + 1) % BUFFER_SLOTS
          /\ SlotOffset(SlotIdx(last)) >= 0
          /\ SlotOffset(SlotIdx(last)) + SLOT_SIZE <= ShmSize

\* the reader is copying the last slot of the region
C12_Witness ==
    /\ r_pc = "copy"
    /\ r_slot = BUFFER_SLOTS - 1
    /\ SlotOffset(r_slot) + SLOT_SIZE = ShmSize

\* C13: when the copied slot's magic differs from MAGIC_NUMBER the call
\* returns false, last_sequence, frames_read and frames_dropped keep their
\* values, and the next call addresses the same slot.
C13_InvalidMagicRejected ==
    [][(ReadReturns /\ frame.magic # MAGIC_NUMBER)
          => (/\ r_ret' = FALSE
              /\ UNCHANGED <<last_sequence, frames_read, frames_dropped>>
              /\ SlotIdx(last_sequence') = r_slot)]_vars

\* a call took a unit, copied a slot without the magic and returned false
C13_Witness ==
    /\ r_pc = "idle"
    /\ r_outcome = "badmagic" /\ r_ret = FALSE
    /\ frame.magic # MAGIC_NUMBER
    /\ units_taken > frames_read
    /\ SlotIdx(last_sequence) = r_slot

\* C14: when a call fails on an invalid magic the caller's output frame is
\* as it was before the call.
C14_OutputUntouchedOnBadMagic ==
    [][(ReadReturns /\ r_outcome' = "badmagic") => frame' = frame_before]_vars

\* C15: no call returns success with a bin_count above MAX_FFT_BINS.
C15_BinCountChecked ==
    [][ReadSucceeds => frame.bins <= MAX_FFT_BINS]_vars

\* the step in which a call returns from its wait without a unit
WaitFails == r_pc = "wait" /\ r_pc' = "idle"

\* C16: a call whose wait ends without a unit (timeout or wait error)
\* returns false and leaves last_sequence, frames_read, frames_dropped, the
\* semaphore value and the caller's frame as they were before the call.
C16_FailedWaitChangesNothing ==
    [][/\ (r_pc = "idle" /\ r_pc' = "wait")
             => UNCHANGED <<last_sequence, frames_read, frames_dropped,
                            sem_write, frame, shm>>
       /\ WaitFails
             => (/\ r_ret' = FALSE
                 /\ r_outcome' \in {"timeout", "waiterr"}
                 /\ frame' = frame_before
                 /\ UNCHANGED <<last_sequence, frames_read, frames_dropped,
                                sem_write, frame, shm>>)]_vars

\* a call timed out after an earlier call had delivered a frame, which is
\* still in the caller's buffer
C16_Witness ==
    /\ r_pc = "idle"
    /\ r_outcome = "timeout" /\ r_ret = FALSE
    /\ frames_read >= 1
    /\ frame = EncodeFrame(last_sequence)
    /\ sem_write = 0

\* C17: a call with timeout_ms > 0 always returns, even if the producer
\* never posts again.
C17_BoundedCallReturns ==
    (r_pc = "wait" /\ r_timeout > 0) ~> (r_pc = "idle")

\* a call with a deadline returned although the producer never posted
C17_Witness ==
    /\ r_pc = "idle"
    /\ r_timeout > 0
    /\ r_outcome = "timeout"
    /\ units_posted = 0
    /\ sem_write = 0

\* C18: a call with timeout_ms = 0 leaves its wait while the semaphore is 0
\* only when the wait itself fails.
C18_UntimedCallBlocks ==
    [][(r_pc = "wait" /\ r_timeout = 0 /\ sem_write = 0 /\ r_pc' # "wait")
          => (r_pc' = "idle" /\ r_outcome' = "waiterr")]_vars

\* an untimed call is waiting on an empty semaphore after the producer stopped
C18_Witness ==
    /\ r_pc = "wait"
    /\ r_timeout = 0
    /\ sem_write = 0
    /\ w_pc = "idle" /\ next_sequence = MaxWrites + 1

\* C19: whatever failed before, a new call can always be made, a waiting call
\* takes a unit when there is one, and a call that copied a frame with the
\* magic and a sequence above last_sequence succeeds and delivers it.
C19_FailureDoesNotStick ==
    /\ [](r_pc = "idle" => \A t \in Timeouts : ENABLED ReadCall(t))
    /\ []((r_pc = "wait" /\ sem_write > 0) => ENABLED ReadWaitOk)
    /\ [][(ReadReturns /\ frame.magic = MAGIC_NUMBER /\ frame.seq > last_sequence)
             => (r_ret' = TRUE /\ last_sequence' = frame.seq)]_vars

\* a call succeeded after a call that failed on the magic
C19_Witness ==
    /\ r_pc = "idle"
    /\ r_outcome = "ok" /\ r_ret = TRUE
    /\ units_taken > frames_read
    /\ frame = EncodeFrame(last_sequence)

\* C20: between write_frame calls frames_produced = next_sequence - 1 and the
\* units posted are frames_produced - producer_dropped; a drop is counted
\* exactly when the post found the semaphore at BUFFER_SLOTS; neither counter
\* decreases.
C20_ProducerCounters ==
    /\ [](w_pc = "idle"
             => (/\ frames_produced = next_sequence - 1
                 /\ units_posted = frames_produced - producer_dropped))
    /\ [][/\ frames_produced' >= frames_produced
          /\ producer_dropped' >= producer_dropped
          /\ (w_pc = "post" /\ w_pc' = "idle")
                => (/\ frames_produced' = frames_produced + 1
                    /\ producer_dropped' = producer_dropped
                          + (IF sem_write = BUFFER_SLOTS THEN 1 ELSE 0))]_vars

\* drops were counted while the consumer was taking units
C20_Witness ==
    /\ w_pc = "idle"
    /\ producer_dropped >= 2
    /\ units_taken >= 1
    /\ frames_produced = units_posted + producer_dropped

\* ---------------------------------------------------------------------------
\* Initialisation, teardown, layout and the renderer's main loop
\* ---------------------------------------------------------------------------

\* the step in which shm_reader_init returns a reader
InitReturnsReader == i_pc # "ready" /\ i_pc' = "ready"

\* C21: in attach mode shm_reader_init creates neither named object and
\* returns a reader only if the segment and the semaphore both existed; in
\* create mode a returned reader means both exist and the segment has
\* BUFFER_SLOTS * SLOT_SIZE bytes; a semaphore that comes into existence
\* starts at 0, and only a create-mode call brings an object into existence.
C21_InitModes ==
    [][ /\ (~i_create /\ i_pc # "none") => UNCHANGED <<seg_exists, sem_exists>>
        /\ (InitReturnsReader /\ ~i_create)
              => (seg_exists /\ sem_exists /\ i_created' = {})
        /\ (InitReturnsReader /\ i_create)
              => (seg_exists' /\ sem_exists' /\ seg_size' = ShmSize)
        /\ (sem_exists' /\ ~sem_exists) => (i_create /\ sem_write' = 0)
        /\ (seg_exists' /\ ~seg_exists) => i_create
      ]_vars

\* a create-mode call that found nothing and created both objects
C21_Witness ==
    /\ i_pc = "ready"
    /\ i_created = {"seg", "sem"}
    /\ seg_size = ShmSize
    /\ sem_write = 0

\* C22: shm_reader_destroy releases the reader's four local resources and
\* leaves the named segment, its size, the slot contents, the semaphore and
\* its count as they were; no step of the consumer removes a named object.
C22_DestroyLocalOnly ==
    [][ /\ (i_pc = "ready" /\ i_pc' = "destroyed")
              => /\ res = AllResources
                 /\ res' = {}
                 /\ UNCHANGED <<seg_exists, seg_size, sem_exists, shm, sem_write>>
        /\ seg_exists => seg_exists'
        /\ sem_exists => sem_exists'
      ]_vars

\* a reader that created both objects was destroyed; the objects, a written
\* frame and a posted unit are still there
C22_Witness ==
    /\ i_pc = "destroyed"
    /\ i_created = {"seg", "sem"}
    /\ seg_exists
    /\ sem_exists
    /\ sem_write > 0
    /\ shm[1] = EncodeFrame(1)

\* C23: the packed layout puts magic at 0, frame_sequence at 4, timestamp_us
\* at 12, sample_rate at 20, bin_count at 24, reserved at 28, magnitude at 64
\* and phase at 64 + 4 * MAX_FFT_BINS; the header has HEADER_SIZE = 64 bytes,
\* the frame SLOT_SIZE bytes, header and both arrays fit in a slot, and the
\* region (the mapped size, and the size of an existing segment a reader is
\* attached to) is BUFFER_SLOTS * SLOT_SIZE.
C23_PackedLayout ==
    /\ [i \in 1..Len(HeaderFields) |-> FieldOffset(HeaderFields, i)]
          = <<0, 4, 12, 20, 24, 28>>
    /\ StructSize(HeaderFields) = HEADER_SIZE
    /\ HEADER_SIZE = 64
    /\ FieldOffset(FrameFields, 2) = 64
    /\ FieldOffset(FrameFields, 3) = 64 + 4 * MAX_FFT_BINS
    /\ PaddingSize >= 0
    /\ StructSize(FrameFields) = SLOT_SIZE
    /\ HEADER_SIZE + 2 * 4 * MAX_FFT_BINS <= SLOT_SIZE
    /\ ShmSize = BUFFER_SLOTS * SLOT_SIZE
    /\ (i_pc = "ready") => (seg_size = BUFFER_SLOTS * SLOT_SIZE)
    /\ (r_pc = "copy")
          => (SlotOffset(r_slot) + StructSize(FrameFields) <= seg_size)

\* the frame in the last slot of the region is being copied
C23_Witness ==
    /\ r_pc = "copy"
    /\ SlotOffset(r_slot) + StructSize(FrameFields) = seg_size

C25_Counters ==
    [][ /\ InitReturnsReader
              => (last_sequence' = 0 /\ frames_read' = 0 /\ frames_dropped' = 0)
        /\ (i_pc \notin {"none", "failed"})
              => /\ ReadSucceeds => frames_read' = frames_read + 1
                 /\ frames_read' # frames_read => ReadSucceeds
                 /\ frames_dropped' # frames_dropped => ReadSucceeds
                 /\ frames_read' >= frames_read
                 /\ frames_dropped' >= frames_dropped
      ]_vars

\* several successful reads, one of which counted dropped frames
C25_Witness ==
    /\ i_pc = "ready"
    /\ frames_read >= 2
    /\ frames_dropped > 0

\* C26: when shm_reader_init has returned NULL the call holds no local
\* resource, whichever step failed; when it has returned a reader the reader
\* holds all four; a call in progress holds exactly what its completed steps
\* acquired.
C26_FailedInitReleasesAll ==
    /\ (i_pc = "failed") => (res = {} /\ i_failed_at # "none")
    /\ (i_pc = "ready") => (res = AllResources /\ i_failed_at = "none")
    /\ (i_pc = "shm_open") => (res = {"mem"})
    /\ (i_pc \in {"ftruncate", "mmap"}) => (res = {"mem", "fd"})
    /\ (i_pc = "sem_open") => (res = {"mem", "fd", "map"})

\* sem_open, the last step, failed after the three earlier acquisitions
C26_Witness ==
    /\ i_pc = "failed"
    /\ i_failed_at = "sem_open"
    /\ res = {}

\* C27: the ring buffer changes only in a producer step that stores a part of
\* a frame, and the semaphore count rises only in the producer's post; no step
\* of shm_reader_read_frame or shm_reader_destroy does either.
C27_ConsumerReadOnly ==
    [][ /\ (shm' # shm) => (w_pc = "write" /\ w_todo' # w_todo)
        /\ (sem_write' > sem_write) => (w_pc = "post" /\ w_pc' = "idle")
        /\ (r_pc' # r_pc \/ (i_pc = "ready" /\ i_pc' = "destroyed"))
              => (shm' = shm /\ sem_write' <= sem_write)
      ]_vars

\* frame 1 was read and the reader destroyed; slot 1 still holds frame 1 and
\* the count is what the reader's wait left
C27_Witness ==
    /\ i_pc = "destroyed"
    /\ frames_read = 1
    /\ last_sequence = 1
    /\ shm[1] = EncodeFrame(1)
    /\ units_posted = 1
    /\ sem_write = 0

\* C28: main() is about to render only after the read of that iteration
\* returned true; when main() has returned after shm_reader_init succeeded,
\* shm_reader_destroy was called exactly once and renderer_destroy once if
\* renderer_init succeeded and never otherwise; when shm_reader_init failed,
\* main() returns 1 and the renderer was never initialised.
C28_MainPaths ==
    /\ (m_pc = "render") => (r_pc = "idle" /\ r_ret /\ r_outcome = "ok")
    /\ reader_destroys <= 1
    /\ renderer_destroys <= 1
    /\ (m_pc = "exit" /\ i_pc # "failed")
          => /\ i_pc = "destroyed"
             /\ reader_destroys = 1
             /\ renderer # "ready"
             /\ renderer_destroys = (IF renderer = "destroyed" THEN 1 ELSE 0)
    /\ (i_pc = "failed")
          => (renderer = "none" /\ reader_destroys = 0 /\ renderer_destroys = 0)
    /\ (i_pc = "failed" /\ m_pc = "exit") => (exit_status = 1)
    /\ (m_pc # "exit") => (reader_destroys = 0 /\ renderer_destroys = 0)

\* main() rendered frames and returned 0
C28_Witness ==
    /\ m_pc = "exit"
    /\ exit_status = 0
    /\ frame_count >= 2
    /\ reader_destroys = 1
    /\ renderer_destroys = 1

\* main() is inside its loop
InLoop == m_pc \in {"loop", "events", "read", "reading", "render"}

\* C29: g_running, once false, stays false; a loop test made after that starts
\* no further iteration (so no further read); and main() then reaches its end
\* with both destroy calls made and status 0, whatever the producer does.
C29_ShutdownHonoured ==
    /\ [][ /\ (~g_running) => (~g_running')
           /\ (~g_running /\ m_pc = "loop") => (m_pc' \in {"loop", "cleanup"})
         ]_vars
    /\ (~g_running /\ InLoop)
          ~> (/\ m_pc = "exit"
              /\ exit_status = 0
              /\ renderer_destroys = 1
              /\ reader_destroys = 1)

\* main() returned 0 after a signal, its last read having timed out on an
\* empty semaphore
C29_Witness ==
    /\ m_pc = "exit"
    /\ exit_status = 0
    /\ ~g_running
    /\ r_outcome = "timeout"
    /\ sem_write = 0

\* C30: frames_read + frames_dropped = last_sequence in every state.
C30_CountersSumToLast == frames_read + frames_dropped = last_sequence

\* ---------------------------------------------------------------------------
\* A consumer that polls with a bounded timeout
\* ---------------------------------------------------------------------------

\* the consumer's loop as main() runs it: every call has timeout_ms = 100
PollNext ==
    \/ WriteBegin
    \/ \E p \in Parts : WritePart(p)
    \/ WritePost
    \/ ReadCall(100)
    \/ ReadWaitOk
    \/ ReadTimedOut
    \/ ReadWaitError
    \/ \E p \in Parts : ReadCopy(p)
    \/ ReadValidate

\* both processes keep running: the producer until it has written MaxWrites
\* frames, the consumer for ever; a wait is not interrupted by a signal every
\* time, so it ends with a unit or with the deadline infinitely often
PollSpec ==
    /\ Init
    /\ [][PollNext]_vars
    /\ WF_vars(ProducerStep)
    /\ WF_vars(ReadCall(100))
    /\ SF_vars(ReadWaitOk \/ ReadTimedOut)
    /\ WF_vars(\E p \in Parts : ReadCopy(p))
    /\ WF_vars(ReadValidate)

\* C31: the producer stops after frame MaxWrites and the consumer keeps
\* polling; eventually last_sequence is MaxWrites, the newest frame.
C31_NewestDelivered == <>(last_sequence = MaxWrites)

\* C32: with the producer writing frame n to slot n mod BUFFER_SLOTS, every
\* frame a successful read decodes has a sequence congruent to
\* last_sequence + 1 modulo BUFFER_SLOTS, the slot read next is the following
\* slot, and what the read adds to frames_dropped is a multiple of
\* BUFFER_SLOTS.
C32_OneSlotPerRead ==
    [][ReadSucceeds =>
          /\ frame.seq % BUFFER_SLOTS = (last_sequence + 1) % BUFFER_SLOTS
          /\ last_sequence' = frame.seq
          /\ SlotIdx(last_sequence') = (SlotIdx(last_sequence) + 1) % BUFFER_SLOTS
          /\ (frames_dropped' - frames_dropped) % BUFFER_SLOTS = 0
      ]_vars

\* a read after the first one counted a gap of one whole ring
C32_Witness ==
    /\ r_outcome = "ok"
    /\ frames_read = 2
    /\ frames_dropped = BUFFER_SLOTS
    /\ last_sequence = BUFFER_SLOTS + 2

\* C33: from a zero-filled segment and a semaphore at 0, a call whose wait
\* succeeded copies a slot whose header the producer has written, decodes
\* the protocol magic, and never returns through the invalid-magic path.
C33_NoInvalidMagic ==
    /\ (r_pc = "copy") => (shm[r_slot].magic = MAGIC_NUMBER /\ shm[r_slot].seq > 0)
    /\ (r_pc = "validate") => (frame.magic = MAGIC_NUMBER)
    /\ r_outcome # "badmagic"

\* a read succeeded while other slots of the segment are still zero-filled
C33_Witness ==
    /\ r_outcome = "ok"
    /\ frames_read = 1
    /\ frame.magic = MAGIC_NUMBER
    /\ shm[0] = ZeroSlot

\* C34: a successful wait lowers the semaphore by exactly one, a failed wait
\* leaves it, and no later step of the call raises it, also when the magic
\* check fails; so units posted - semaphore value = successful reads + calls
\* that returned false after their wait had succeeded, the call that holds a
\* unit and has not returned yet counted with them.
C34_UnitAccounting ==
    /\ [](units_posted - sem_write
            = frames_read + reads_rejected
                + (IF r_pc \in {"copy", "validate"} THEN 1 ELSE 0))
    /\ [][ /\ (r_pc = "wait" /\ r_pc' = "copy")
                  => sem_write' = sem_write - 1
           /\ (r_pc # r_pc' /\ r_pc' # "copy") => sem_write' = sem_write
         ]_vars

\* one call failed on the magic after taking a unit, another succeeded
C34_Witness ==
    /\ r_pc = "idle"
    /\ reads_rejected > 0
    /\ frames_read > 0
    /\ units_posted - sem_write = frames_read + reads_rejected

\* ---------------------------------------------------------------------------
\* Several readers, each initialised with a segment name
\* ---------------------------------------------------------------------------

\* a sequence without its i-th element
RemoveAt(q, i) == SubSeq(q, 1, i - 1) \o SubSeq(q, i + 1, Len(q))

\* reader r = shm_reader_init(name, true)
MultiInit(r, name) ==
    /\ readers[r].pc = "none"
    /\ readers' = [readers EXCEPT ![r] =
                      [pc |-> "ready", shm_name |-> name,
                       sem_name |-> SemNameFor(name), woken_by |-> ""]]
    /\ UNCHANGED <<sem_units, transport_vars, life_vars, clock_vars>>

\* the producer of the ring in segment name posts after a write_frame
MultiPost(name) ==
    /\ Len(sem_units[SemNameFor(name)]) < MaxPosts
    /\ sem_units' = [sem_units EXCEPT ![SemNameFor(name)] = Append(@, name)]
    /\ UNCHANGED <<readers, transport_vars, life_vars, clock_vars>>

\* the wait of shm_reader_read_frame(r, ...) takes one of the pending units
MultiWait(r) ==
    /\ readers[r].pc = "ready"
    /\ \E i \in 1..Len(sem_units[readers[r].sem_name]) :
         /\ readers' = [readers EXCEPT ![r].woken_by =
                           sem_units[readers[r].sem_name][i]]
         /\ sem_units' = [sem_units EXCEPT ![readers[r].sem_name] =
                             RemoveAt(@, i)]
    /\ UNCHANGED <<transport_vars, life_vars, clock_vars>>

\* shm_reader_destroy(r)
MultiDestroy(r) ==
    /\ readers[r].pc = "ready"
    /\ readers' = [readers EXCEPT ![r].pc = "destroyed"]
    /\ UNCHANGED <<sem_units, transport_vars, life_vars, clock_vars>>

NamesNext ==
    \/ \E r \in ReaderIds, name \in ShmNames : MultiInit(r, name)
    \/ \E name \in ShmNames : MultiPost(name)
    \/ \E r \in ReaderIds : MultiWait(r)
    \/ \E r \in ReaderIds : MultiDestroy(r)

NamesSpec == Init /\ [][NamesNext]_vars

\* C35: two readers initialised with different segment names wait on
\* different semaphores, and the unit that ends a reader's wait was posted
\* for that reader's own segment.
C35_SignalPerName ==
    /\ \A r1, r2 \in ReaderIds :
          (/\ readers[r1].pc = "ready"
           /\ readers[r2].pc = "ready"
           /\ readers[r1].shm_name # readers[r2].shm_name)
             => readers[r1].sem_name # readers[r2].sem_name
    /\ \A r \in ReaderIds :
          (readers[r].pc = "ready")
             => readers[r].woken_by \in {"", readers[r].shm_name}

\* ---------------------------------------------------------------------------
\* The deadline of the timed wait
\* ---------------------------------------------------------------------------

NSEC_PER_SEC == 1000000000
NSEC_PER_MSEC == 1000000
INT_MAX == 2147483647

\* clock values and timeouts the computation is applied to
ClockSecs == {0, 1, 1700000000}
ClockNsecs == {0, 1, 499999999, 500000000, 999000000, 999999999}
TimeoutsMs == {1, 100, 999, 1000, 1001, 1500, 59999, INT_MAX}

\* the computation without the carry into tv_sec
Deadline_noCarry(clock, timeout_ms) ==
    [tv_sec |-> clock.tv_sec + (timeout_ms \div 1000),
     tv_nsec |-> clock.tv_nsec + (timeout_ms % 1000) * NSEC_PER_MSEC]

\* ts.tv_sec += timeout_ms / 1000; ts.tv_nsec += (timeout_ms % 1000) * 1000000;
\* if (ts.tv_nsec >= 1000000000) { ts.tv_sec += 1; ts.tv_nsec -= 1000000000; }
\* (the product is at most 999000000 and the sum below 2000000000, so neither
\* leaves the range of a 32-bit int or long)
Deadline(clock, timeout_ms) ==
    LET sec == clock.tv_sec + (timeout_ms \div 1000)
        nsec == clock.tv_nsec + (timeout_ms % 1000) * NSEC_PER_MSEC
    IN  IF nsec >= NSEC_PER_SEC
        THEN [tv_sec |-> sec + 1, tv_nsec |-> nsec - NSEC_PER_SEC]
        ELSE [tv_sec |-> sec, tv_nsec |-> nsec]

\* the head of a call with timeout_ms > 0: clock_gettime, then the deadline
ComputeDeadline(clock, timeout_ms) ==
    /\ timeout_ms > 0
    /\ now' = clock
    /\ ts_timeout' = timeout_ms
    /\ ts' = Deadline(clock, timeout_ms)
    /\ UNCHANGED <<transport_vars, life_vars, multi_vars>>

DeadlineNext ==
    \E s \in ClockSecs, n \in ClockNsecs, t \in TimeoutsMs :
        ComputeDeadline([tv_sec |-> s, tv_nsec |-> n], t)

DeadlineSpec == Init /\ [][DeadlineNext]_vars

\* the time from a to b as <<whole seconds, milliseconds below a second>>,
\* for b not before a and a whole number of milliseconds apart
MsBetween(a, b) ==
    LET q == b.tv_sec - a.tv_sec
        d == (b.tv_nsec - a.tv_nsec) \div NSEC_PER_MSEC
    IN  IF d >= 0 THEN <<q, d>> ELSE <<q - 1, d + 1000>>

\* C36: for timeout_ms > 0 and a clock value with 0 <= tv_nsec < 1000000000
\* the deadline has 0 <= tv_nsec < 1000000000 and lies exactly timeout_ms
\* milliseconds after the clock value.
C36_DeadlineNormalised ==
    (ts_timeout > 0 /\ now.tv_nsec >= 0 /\ now.tv_nsec < NSEC_PER_SEC)
      => /\ ts.tv_nsec >= 0
         /\ ts.tv_nsec < NSEC_PER_SEC
         /\ (ts.tv_nsec - now.tv_nsec) % NSEC_PER_MSEC = 0
         /\ MsBetween(now, ts) = <<ts_timeout \div 1000, ts_timeout % 1000>>

\* a deadline whose nanoseconds carried into the seconds
C36_Witness ==
    /\ ts_timeout > 0
    /\ now.tv_nsec + (ts_timeout % 1000) * NSEC_PER_MSEC >= NSEC_PER_SEC
    /\ ts.tv_sec = now.tv_sec + (ts_timeout \div 1000) + 1
    /\ ts.tv_nsec < now.tv_nsec

====
